---- MODULE Spec2Model ----
(***************************************************************************)
(* Infobase (infogami/infobase/infobase.py): the tenant registry, the     *)
(* write pipeline of a Site (write / save / save_many) and the event and  *)
(* trigger dispatch that follows a write.                                 *)
(*                                                                         *)
(* Every public method is one atomic action: requests are synchronous and *)
(* the source has no suspension point inside a method.  The variable      *)
(* `call` holds what the most recent call did and returned: the items it  *)
(* handed to storage, the storage result, every fire_event dispatch,      *)
(* every fire_trigger firing, the exception that left the method (if any) *)
(* and the return value.                                                  *)
(***************************************************************************)
EXTENDS Integers, Sequences, FiniteSets, TLC

\* ---------------------------------------------------------------- domains
Names     == {"a"}               \* tenant names used by callers
Keys      == {"k1", "k2"}        \* object keys used by callers
Types     == {"T1", "T2"}        \* type keys of the written objects
Listeners == {"L1", "L2"}        \* callables given to add_event_listener
Handlers  == {"h1", "h2"}        \* callables given to add_trigger

\* Callables that raise on every invocation; the others return normally.
RaisingListeners == {"L1"}
RaisingHandlers  == {"h1"}

\* ----------------------------------------------------------------- bounds
MaxRevisions == 3   \* revisions held by all tenant stores together
MaxObservers == 2   \* registered listeners plus registered trigger handlers
MaxItems     == 2   \* items of one write / save_many request

VARIABLES
    store,            \* storage provider: tenant name -> durable storage
    sites,            \* Infobase.sites: tenant name -> Site
    event_listeners,  \* Infobase.event_listeners
    call,             \* the most recent call: what it did and returned
    inflight          \* request id -> frame of a call that runs step by step

vars == <<store, sites, event_listeners, call, inflight>>

\* --------------------------------------------------------------- helpers
\* The value standing for Python's None where a thing is expected.
NoThing == [key |-> "None", type |-> "None", revision |-> 0]

\* revision=None in Site.get / store.get: the latest revision.
Latest == 0

\* Data on which the save processor finds nothing to change.
NoChange == "nochange"

\* The falsy value the save processor then returns (an empty item).
FalsyItem == [key |-> "", type |-> ""]

Truthy(item) == item # FalsyItem

RECURSIVE SumLen(_, _)
SumLen(f, S) ==
    IF S = {} THEN 0
    ELSE LET x == CHOOSE y \in S : TRUE
         IN  Len(f[x]) + SumLen(f, S \ {x})

\* Revisions held by one tenant's storage, and by all of them.
RevisionsOf(things) == SumLen(things, DOMAIN things)

RECURSIVE TotalRevisions(_, _)
TotalRevisions(st, S) ==
    IF S = {} THEN 0
    ELSE LET n == CHOOSE y \in S : TRUE
         IN  RevisionsOf(st[n].things) + TotalRevisions(st, S \ {n})

RECURSIVE TotalTriggers(_, _)
TotalTriggers(ss, S) ==
    IF S = {} THEN 0
    ELSE LET n == CHOOSE y \in S : TRUE
         IN  SumLen(ss[n]._triggers, DOMAIN ss[n]._triggers)
             + TotalTriggers(ss, S \ {n})

Observers == Len(event_listeners) + TotalTriggers(sites, DOMAIN sites)

\* Sequences over S of length at most n without a repeated key.
SeqsUpTo(S, n) == UNION {[1..m -> S] : m \in 0..n}

DistinctKeys(items) ==
    \A i, j \in 1..Len(items) : i # j => items[i].key # items[j].key


\* --------------------------------------------- storage handle (collaborator)
\* The thing stored under key at revision rev of its history.
Thing(key, hist, rev) == [key |-> key, type |-> hist[rev], revision |-> rev]

\* store.get(key, revision): the thing at that revision, the latest one when
\* revision is None, None when there is no such thing.
StoreGet(things, key, revision) ==
    LET hist == things[key]
    IN  IF revision = Latest
        THEN IF hist = <<>> THEN NoThing ELSE Thing(key, hist, Len(hist))
        ELSE IF revision \in 1..Len(hist) THEN Thing(key, hist, revision)
             ELSE NoThing

\* store.save(key, data, ...): appends one revision and returns
\* {key, revision}; revision 1 denotes first creation.
StoreSave(things, item) ==
    LET t1 == [things EXCEPT ![item.key] = Append(@, item.type)]
    IN  [things |-> t1,
         result |-> [key |-> item.key, revision |-> Len(t1[item.key])]]

\* store.save_many(items, ...): saves the items in order, atomically, and
\* returns one {key, revision} per item.
RECURSIVE StoreSaveMany(_, _)
StoreSaveMany(things, items) ==
    IF items = <<>> THEN [things |-> things, result |-> <<>>]
    ELSE LET one  == StoreSave(things, Head(items))
             rest == StoreSaveMany(one.things, Tail(items))
         IN  [things |-> rest.things, result |-> <<one.result>> \o rest.result]

\* A tenant's storage right after store.create(name): no thing, no account.
NewStorage == [things |-> [k \in Keys |-> <<>>], accounts |-> {}]

\* SaveProcessor.process(key, data): the normalized item, or a falsy value
\* when the data makes no effective change.
SaveProcess(key, data) ==
    IF data = NoChange THEN FalsyItem ELSE [key |-> key, type |-> data]

\* ------------------------------------------------------------- event bus
\* common.Event(sitename, name, timestamp, ip, username, data)
Event(sitename, name, data) ==
    [sitename |-> sitename, name |-> name, data |-> data]

\* A fire_event that lets the first listener exception escape.
RECURSIVE FireEventNoCatch(_, _)
FireEventNoCatch(listeners, event) ==
    IF listeners = <<>>
    THEN [event |-> event, calls |-> <<>>, recorded |-> 0, raised |-> "none"]
    ELSE LET l    == Head(listeners)
             rest == FireEventNoCatch(Tail(listeners), event)
         IN  IF l \in RaisingListeners
             THEN [event |-> event, calls |-> <<l>>, recorded |-> 0,
                   raised |-> "ListenerError"]
             ELSE [rest EXCEPT !.calls = <<l>> \o @]

\* Infobase.fire_event(event): the listeners invoked, in order; the number of
\* exceptions handed to common.record_exception; the exception that leaves
\* fire_event ("none": it returns).
RECURSIVE FireEvent(_, _)
FireEvent(listeners, event) ==
    IF listeners = <<>>
    THEN [event |-> event, calls |-> <<>>, recorded |-> 0, raised |-> "none"]
    ELSE LET l    == Head(listeners)
             rest == FireEvent(Tail(listeners), event)
         IN  IF l \in RaisingListeners
             THEN \* except: common.record_exception(); pass
                  [rest EXCEPT !.calls = <<l>> \o @, !.recorded = @ + 1]
             ELSE [rest EXCEPT !.calls = <<l>> \o @]

\* Site._fire_event(name, timestamp, ip, username, data)
Site_fire_event(sitename, listeners, data) ==
    FireEvent(listeners, Event(sitename, "save", data))

\* An event loop that stops after the first item.
FireEventsFirstOnly(sitename, listeners, items) ==
    IF items = <<>> THEN [dispatches |-> <<>>, raised |-> "none"]
    ELSE LET d == Site_fire_event(sitename, listeners, Head(items))
         IN  [dispatches |-> <<d>>, raised |-> d.raised]

\* for item in items: self._fire_event("save", ..., item)
\* An exception leaving _fire_event ends the loop and leaves the method.
RECURSIVE FireEvents(_, _, _)
FireEvents(sitename, listeners, items) ==
    IF items = <<>> THEN [dispatches |-> <<>>, raised |-> "none"]
    ELSE LET d == Site_fire_event(sitename, listeners, Head(items))
         IN  IF d.raised # "none"
             THEN [dispatches |-> <<d>>, raised |-> d.raised]
             ELSE LET rest == FireEvents(sitename, listeners, Tail(items))
                  IN  [rest EXCEPT !.dispatches = <<d>> \o @]


\* -------------------------------------------------------------- triggers
\* self._triggers.get(type.key, [])
TriggersFor(triggers, type) ==
    IF type \in DOMAIN triggers THEN triggers[type] ELSE <<>>

\* A loop over the handlers that lets the first handler exception escape.
RECURSIVE RunTriggersNoCatch(_)
RunTriggersNoCatch(handlers) ==
    IF handlers = <<>> THEN [calls |-> <<>>, reported |-> 0, raised |-> "none"]
    ELSE LET t == Head(handlers)
         IN  IF t \in RaisingHandlers
             THEN [calls |-> <<t>>, reported |-> 0, raised |-> "TriggerError"]
             ELSE [RunTriggersNoCatch(Tail(handlers)) EXCEPT !.calls = <<t>> \o @]

\* for t in triggers: try: t(self, old, new) except: (print, traceback):
\* the handlers invoked, the failures reported, the exception that leaves
\* the loop ("none": it ends normally).
RECURSIVE RunTriggers(_)
RunTriggers(handlers) ==
    IF handlers = <<>> THEN [calls |-> <<>>, reported |-> 0, raised |-> "none"]
    ELSE LET t    == Head(handlers)
             rest == RunTriggers(Tail(handlers))
         IN  IF t \in RaisingHandlers
             THEN [rest EXCEPT !.calls = <<t>> \o @, !.reported = @ + 1]
             ELSE [rest EXCEPT !.calls = <<t>> \o @]

\* fire_trigger(type, old, new) inside Site._fire_triggers: one firing.
fire_trigger(triggers, type, old, new) ==
    LET run == RunTriggers(TriggersFor(triggers, type))
    IN  [type |-> type, old |-> old, new |-> new, calls |-> run.calls,
         reported |-> run.reported, raised |-> run.raised]

\* The firings of a sequence of (type, old, new) requests, in order; an
\* exception leaving a firing ends the sequence.
RECURSIVE FireAll(_, _)
FireAll(triggers, reqs) ==
    IF reqs = <<>> THEN [fired |-> <<>>, raised |-> "none"]
    ELSE LET r == Head(reqs)
             f == fire_trigger(triggers, r.type, r.old, r.new)
         IN  IF f.raised # "none"
             THEN [fired |-> <<f>>, raised |-> f.raised]
             ELSE [FireAll(triggers, Tail(reqs)) EXCEPT !.fired = <<f>> \o @]

\* The created loop that hands the current object over as the old one too.
RECURSIVE CreatedRequestsOldIsThing(_, _)
CreatedRequestsOldIsThing(things, created) ==
    IF created = <<>> THEN <<>>
    ELSE LET thing == StoreGet(things, Head(created), Latest)
         IN  <<[type |-> thing.type, old |-> thing, new |-> thing]>>
             \o CreatedRequestsOldIsThing(things, Tail(created))

\* for key in created: thing = self.get(key); fire_trigger(thing.type, None, thing)
RECURSIVE CreatedRequests(_, _)
CreatedRequests(things, created) ==
    IF created = <<>> THEN <<>>
    ELSE LET thing == StoreGet(things, Head(created), Latest)
         IN  <<[type |-> thing.type, old |-> NoThing, new |-> thing]>>
             \o CreatedRequests(things, Tail(created))

\* The updated loop that takes the current object for the old one.
RECURSIVE UpdatedRequestsOldIsLatest(_, _)
UpdatedRequestsOldIsLatest(things, updated) ==
    IF updated = <<>> THEN <<>>
    ELSE LET key   == Head(updated)
             thing == StoreGet(things, key, Latest)
         IN  <<[type |-> thing.type, old |-> thing, new |-> thing]>>
             \o UpdatedRequestsOldIsLatest(things, Tail(updated))

\* The updated loop that fires only the current type's handlers.
RECURSIVE UpdatedRequestsNewTypeOnly(_, _)
UpdatedRequestsNewTypeOnly(things, updated) ==
    IF updated = <<>> THEN <<>>
    ELSE LET key   == Head(updated)
             thing == StoreGet(things, key, Latest)
             old   == StoreGet(things, key, thing.revision - 1)
         IN  <<[type |-> thing.type, old |-> old, new |-> thing]>>
             \o UpdatedRequestsNewTypeOnly(things, Tail(updated))

\* for key in updated: thing = self.get(key); old = self.get(key, thing.revision-1)
\*   same type: fire_trigger(thing.type, old, thing)
\*   else:      fire_trigger(old.type, old, thing); fire_trigger(thing.type, old, thing)
RECURSIVE UpdatedRequests(_, _)
UpdatedRequests(things, updated) ==
    IF updated = <<>> THEN <<>>
    ELSE LET key   == Head(updated)
             thing == StoreGet(things, key, Latest)
             old   == StoreGet(things, key, thing.revision - 1)
         IN  (IF old.type = thing.type
              THEN <<[type |-> thing.type, old |-> old, new |-> thing]>>
              ELSE <<[type |-> old.type,   old |-> old, new |-> thing],
                     [type |-> thing.type, old |-> old, new |-> thing]>>)
             \o UpdatedRequests(things, Tail(updated))

\* A _fire_triggers that runs the updated loop before the created loop.
FireTriggersUpdatedFirst(triggers, things, created, updated) ==
    FireAll(triggers,
            UpdatedRequests(things, updated) \o CreatedRequests(things, created))

\* Site._fire_triggers(created, updated)
FireTriggers(triggers, things, created, updated) ==
    FireAll(triggers,
            CreatedRequests(things, created) \o UpdatedRequests(things, updated))

\* created = [r['key'] for r in result if r['revision'] == 1]
KeysOf(result) == [i \in 1..Len(result) |-> result[i].key]

CreatedAll(result) == KeysOf(result)

Created(result) == KeysOf(SelectSeq(result, LAMBDA r : r.revision = 1))

\* updated = [r['key'] for r in result if r['revision'] != 1]
Updated(result) == KeysOf(SelectSeq(result, LAMBDA r : r.revision # 1))


\* ------------------------------------------------------ the call record
NoRet == [tag |-> "none"]

\* A call of method op on tenant name that has done nothing yet.
NewCall(op, name) ==
    [op |-> op, name |-> name,
     fault |-> "ok",           \* what the processor / the storage call did
     raised |-> "none",        \* the exception that left the method
     ret |-> NoRet,            \* the value returned
     saved |-> FALSE,          \* the storage save call returned a result
     items |-> <<>>,           \* the items handed to the storage save call
     result |-> <<>>,          \* the storage result sequence
     events |-> <<>>,          \* the fire_event dispatches, in order
     created |-> <<>>,         \* the keys classified as created
     updated |-> <<>>,         \* the keys classified as updated
     fired |-> <<>>,           \* the fire_trigger firings, in order
     log |-> <<>>,             \* dispatches and firings in the order made
     constructed |-> FALSE,    \* a Site object was constructed
     bootstrapped |-> FALSE]   \* Site.bootstrap ran

Raise(c, error) == [c EXCEPT !.raised = error]

\* The rest of a write method once storage has returned: the events, then
\* the triggers, then the return value; an exception leaving either loop
\* leaves the method.
Completed(c, ev, created, updated, tr, ret) ==
    LET evlog == [i \in 1..Len(ev.dispatches) |->
                    [kind |-> "event", key |-> ev.dispatches[i].event.data.key]]
        trlog == [i \in 1..Len(tr.fired) |->
                    [kind |-> "trigger", key |-> tr.fired[i].new.key]]
    IN  IF ev.raised # "none"
        THEN [c EXCEPT !.events = ev.dispatches, !.log = evlog,
                       !.raised = ev.raised]
        ELSE LET c2 == [c EXCEPT !.events = ev.dispatches, !.created = created,
                                 !.updated = updated, !.fired = tr.fired,
                                 !.log = evlog \o trlog]
             IN  IF tr.raised # "none" THEN [c2 EXCEPT !.raised = tr.raised]
                 ELSE [c2 EXCEPT !.ret = ret]

\* ------------------------------------------------------- Site: the writes
\* What the processor or the storage call does in a call.
Outcomes == {"ok", "ProcessorError", "StoreError"}

\* A write that swallows the error of the processor or of the storage call
\* and goes on to the events and the triggers.
SiteWriteSwallow(site, things, items, outcome) ==
    LET c       == [NewCall("write", site.sitename) EXCEPT !.fault = outcome]
        stored  == IF outcome = "ok" THEN StoreSaveMany(things, items)
                   ELSE [things |-> things, result |-> <<>>]
        result  == stored.result
        c1      == [c EXCEPT !.saved = (outcome = "ok"), !.items = items,
                             !.result = result]
        ev      == FireEvents(site.sitename, event_listeners, items)
        created == Created(result)
        updated == Updated(result)
        tr      == FireTriggers(site._triggers, stored.things, created, updated)
    IN  [things |-> stored.things,
         call   |-> Completed(c1, ev, created, updated, tr,
                      [tag |-> "dict", created |-> created,
                       updated |-> updated])]

\* Site.write(query, ...): items is what WriteQueryProcessor.process(query)
\* returns.  The new things of the tenant and the call record.
SiteWrite(site, things, items, outcome) ==
    LET c       == [NewCall("write", site.sitename) EXCEPT !.fault = outcome]
        stored  == StoreSaveMany(things, items)
        result  == stored.result
        c1      == [c EXCEPT !.saved = TRUE, !.items = items, !.result = result]
        ev      == FireEvents(site.sitename, event_listeners, items)
        created == Created(result)
        updated == Updated(result)
        tr      == FireTriggers(site._triggers, stored.things, created, updated)
    IN  IF outcome # "ok"
        THEN [things |-> things, call |-> Raise(c, outcome)]
        ELSE [things |-> stored.things,
              call   |-> Completed(c1, ev, created, updated, tr,
                           [tag |-> "dict", created |-> created,
                            updated |-> updated])]

\* A save that fires the event whatever the processor returned.
SiteSaveAlwaysFires(site, things, key, data, outcome) ==
    LET c       == [NewCall("save", site.sitename) EXCEPT !.fault = outcome]
        item    == SaveProcess(key, data)
        stored  == StoreSave(things, item)
        result  == stored.result
        c1      == [c EXCEPT !.saved = TRUE, !.items = <<item>>,
                             !.result = <<result>>]
        ev      == FireEvents(site.sitename, event_listeners, <<item>>)
        created == Created(<<result>>)
        updated == Updated(<<result>>)
        tr      == FireTriggers(site._triggers, stored.things, created, updated)
    IN  IF outcome # "ok"
        THEN [things |-> things, call |-> Raise(c, outcome)]
        ELSE IF ~Truthy(item)
        THEN [things |-> things,
              call   |-> [c EXCEPT !.events = ev.dispatches,
                                   !.ret = [tag |-> "empty"]]]
        ELSE [things |-> stored.things,
              call   |-> Completed(c1, ev, created, updated, tr,
                           [tag |-> "result", value |-> result])]

\* Site.save(key, data, ...)
SiteSave(site, things, key, data, outcome) ==
    LET c       == [NewCall("save", site.sitename) EXCEPT !.fault = outcome]
        item    == SaveProcess(key, data)
        stored  == StoreSave(things, item)
        result  == stored.result
        c1      == [c EXCEPT !.saved = TRUE, !.items = <<item>>,
                             !.result = <<result>>]
        ev      == FireEvents(site.sitename, event_listeners, <<item>>)
        created == Created(<<result>>)
        updated == Updated(<<result>>)
        tr      == FireTriggers(site._triggers, stored.things, created, updated)
    IN  IF outcome = "ProcessorError"
        THEN [things |-> things, call |-> Raise(c, outcome)]
        ELSE IF ~Truthy(item)
        THEN \* result = {}: nothing is fired
             [things |-> things, call |-> [c EXCEPT !.ret = [tag |-> "empty"]]]
        ELSE IF outcome = "StoreError"
        THEN [things |-> things, call |-> Raise(c, outcome)]
        ELSE [things |-> stored.things,
              call   |-> Completed(c1, ev, created, updated, tr,
                           [tag |-> "result", value |-> result])]

\* What a second iteration over a generator expression yields once the
\* storage call has iterated it to its end: nothing.
SecondIteration(items) == <<>>

\* Site.save_many(items, ...): raw is the caller's items, each a key and
\* the data the save processor normalizes.
SiteSaveMany(site, things, raw, outcome) ==
    LET c         == [NewCall("save_many", site.sitename) EXCEPT
                            !.fault = outcome]
        processed == [i \in 1..Len(raw) |-> SaveProcess(raw[i].key, raw[i].data)]
        items     == SelectSeq(processed, Truthy)
        stored    == StoreSaveMany(things, items)
        result    == stored.result
        c1        == [c EXCEPT !.saved = TRUE, !.items = items, !.result = result]
        ev        == FireEvents(site.sitename, event_listeners,
                                SecondIteration(items))
        created   == Created(result)
        updated   == Updated(result)
        tr        == FireTriggers(site._triggers, stored.things, created, updated)
    IN  IF outcome # "ok"
        THEN [things |-> things, call |-> Raise(c, outcome)]
        ELSE [things |-> stored.things,
              call   |-> Completed(c1, ev, created, updated, tr,
                           [tag |-> "list", value |-> result])]

\* ------------------------------------------------------------- Site, setup
EmptyMap == [t \in {} |-> <<>>]

\* Site.__init__: a Site with no trigger registered.
NewSite(sitename) == [sitename |-> sitename, _triggers |-> EmptyMap]

\* bootstrap.make_query(): the objects every new tenant is seeded with.
BootstrapQuery == <<[key |-> "k1", data |-> "T1"]>>

\* The accounts Site.bootstrap registers.
BootstrapAccounts == {"admin", "useradmin"}

\* Site.bootstrap(): save_many(query), then the two account registrations.
Bootstrap(site, storage) ==
    LET w == SiteSaveMany(site, storage.things, BootstrapQuery, "ok")
    IN  [storage |-> [things   |-> w.things,
                      accounts |-> storage.accounts \cup BootstrapAccounts],
         call    |-> w.call]

\* The storage of a tenant that an earlier process created and bootstrapped.
BootstrappedStorage == Bootstrap(NewSite("a"), NewStorage).storage

\* d with key k set to v (d[k] = v on a Python dict).
Put(d, k, v) == [x \in DOMAIN d \cup {k} |-> IF x = k THEN v ELSE d[x]]

\* del d[k]
Del(d, k) == [x \in DOMAIN d \ {k} |-> d[x]]


\* ------------------------------------------------------------------ Init
\* A new Infobase over a storage provider that may already hold tenants an
\* earlier process created: no Site in memory, no listener.
Init ==
    /\ event_listeners = <<>>
    /\ sites = EmptyMap
    /\ \E S \in SUBSET Names :
          /\ Cardinality(S) * Len(BootstrapQuery) <= MaxRevisions
          /\ store = [n \in S |-> BootstrappedStorage]
    /\ call = NewCall("__init__", "")
    /\ inflight = EmptyMap

\* ------------------------------------------------------ Infobase actions
\* A create that registers the new Site before it asks the provider.
CreateRegistersFirst(name) ==
    IF name \in DOMAIN store
    THEN /\ sites' = Put(sites, name, NewSite(name))
         /\ call' = Raise(NewCall("create", name), "AlreadyExistsError")
         /\ UNCHANGED <<store, event_listeners, inflight>>
    ELSE /\ TotalRevisions(store, DOMAIN store) + Len(BootstrapQuery)
               <= MaxRevisions
         /\ LET site == NewSite(name)
                b    == Bootstrap(site, NewStorage)
            IN  /\ store' = Put(store, name, b.storage)
                /\ sites' = Put(sites, name, site)
                /\ call'  = [b.call EXCEPT
                               !.op = "create", !.constructed = TRUE,
                               !.bootstrapped = TRUE,
                               !.ret = [tag |-> "Site", site |-> site]]
         /\ UNCHANGED <<event_listeners, inflight>>

\* Infobase.create(sitename); store.create raises when the tenant exists.
Create(name) ==
    IF name \in DOMAIN store
    THEN /\ call' = Raise(NewCall("create", name), "AlreadyExistsError")
         /\ UNCHANGED <<store, sites, event_listeners, inflight>>
    ELSE /\ TotalRevisions(store, DOMAIN store) + Len(BootstrapQuery)
               <= MaxRevisions
         /\ LET site == NewSite(name)
                b    == Bootstrap(site, NewStorage)
            IN  /\ store' = Put(store, name, b.storage)
                /\ sites' = Put(sites, name, site)
                /\ call'  = [b.call EXCEPT
                               !.op = "create", !.constructed = TRUE,
                               !.bootstrapped = TRUE,
                               !.ret = IF b.call.raised = "none"
                                       THEN [tag |-> "Site", site |-> site]
                                       ELSE NoRet]
         /\ UNCHANGED <<event_listeners, inflight>>

\* An Infobase.get that wraps the storage in a new Site on every call.
GetAlwaysNew(name) ==
    /\ UNCHANGED inflight
    /\ name \in DOMAIN store
    /\ sites' = Put(sites, name, NewSite(name))
    /\ call'  = [NewCall("get", name) EXCEPT
                   !.constructed = TRUE,
                   !.ret = [tag |-> "Site", site |-> NewSite(name)]]
    /\ UNCHANGED <<store, event_listeners>>

\* Infobase.get(sitename)
Get(name) ==
    /\ UNCHANGED inflight
    /\ IF name \in DOMAIN sites
       THEN /\ call' = [NewCall("get", name) EXCEPT
                          !.ret = [tag |-> "Site", site |-> sites[name]]]
            /\ UNCHANGED sites
       ELSE IF name \notin DOMAIN store      \* self.store.get(sitename) is None
       THEN /\ call' = [NewCall("get", name) EXCEPT !.ret = [tag |-> "None"]]
            /\ UNCHANGED sites
       ELSE /\ sites' = Put(sites, name, NewSite(name))
            /\ call'  = [NewCall("get", name) EXCEPT
                           !.constructed = TRUE,
                           !.ret = [tag |-> "Site", site |-> NewSite(name)]]
    /\ UNCHANGED <<store, event_listeners>>

\* A delete that leaves the Site in the mapping.
DeleteKeepsSite(name) ==
    /\ UNCHANGED inflight
    /\ store' = Del(store, name)
    /\ call'  = [NewCall("delete", name) EXCEPT
                   !.ret = [tag |-> "bool", value |-> name \in DOMAIN store]]
    /\ UNCHANGED <<sites, event_listeners>>

\* Infobase.delete(sitename); store.delete tells whether it deleted a tenant.
Delete(name) ==
    /\ UNCHANGED inflight
    /\ sites' = IF name \in DOMAIN sites THEN Del(sites, name) ELSE sites
    /\ store' = Del(store, name)
    /\ call'  = [NewCall("delete", name) EXCEPT
                   !.ret = [tag |-> "bool", value |-> name \in DOMAIN store]]
    /\ UNCHANGED event_listeners

\* Infobase.add_event_listener(listener)
AddEventListener(listener) ==
    /\ UNCHANGED inflight
    /\ Observers < MaxObservers
    /\ event_listeners' = Append(event_listeners, listener)
    /\ call' = NewCall("add_event_listener", listener)
    /\ UNCHANGED <<store, sites>>

\* list.remove(x): the list without the first item equal to x.
RECURSIVE ListRemove(_, _)
ListRemove(list, x) ==
    IF list = <<>> THEN <<>>
    ELSE IF Head(list) = x THEN Tail(list)
    ELSE <<Head(list)>> \o ListRemove(Tail(list), x)

\* A remove_event_listener that lets the ValueError of an absent listener
\* escape.
RemoveEventListenerNoCatch(listener) ==
    /\ UNCHANGED inflight
    /\ event_listeners' = ListRemove(event_listeners, listener)
    /\ call' = IF \E i \in 1..Len(event_listeners) : event_listeners[i] = listener
               THEN NewCall("remove_event_listener", listener)
               ELSE Raise(NewCall("remove_event_listener", listener),
                          "ValueError")
    /\ UNCHANGED <<store, sites>>

\* Infobase.remove_event_listener(listener); the ValueError of an absent
\* listener is swallowed.
RemoveEventListener(listener) ==
    /\ UNCHANGED inflight
    /\ event_listeners' = ListRemove(event_listeners, listener)
    /\ call' = NewCall("remove_event_listener", listener)
    /\ UNCHANGED <<store, sites>>

\* An add_trigger whose registry is one mapping shared by every Site.
AddTriggerShared(name, type, func) ==
    /\ UNCHANGED inflight
    /\ name \in DOMAIN sites
    /\ Observers < MaxObservers
    /\ sites' = [m \in DOMAIN sites |->
                    [sites[m] EXCEPT !._triggers =
                        Put(@, type, Append(TriggersFor(@, type), func))]]
    /\ call' = NewCall("add_trigger", name)
    /\ UNCHANGED <<store, event_listeners>>

\* ---------------------------------------------------------- Site actions
\* Site.add_trigger(type, func) on the Site registered under name.
AddTrigger(name, type, func) ==
    /\ UNCHANGED inflight
    /\ name \in DOMAIN sites
    /\ Observers < MaxObservers
    /\ LET site == sites[name]
           list == TriggersFor(site._triggers, type)
       IN  sites' = [sites EXCEPT ![name]._triggers =
                        Put(site._triggers, type, Append(list, func))]
    /\ call' = NewCall("add_trigger", name)
    /\ UNCHANGED <<store, event_listeners>>

\* The item sequences a processor or a caller produces: each key at most once.
ItemSeqs(D) ==
    {q \in SeqsUpTo([key : Keys, data : D], MaxItems) : DistinctKeys(q)}

AsItems(q) == [i \in 1..Len(q) |-> [key |-> q[i].key, type |-> q[i].data]]

HasRoom(n) == TotalRevisions(store, DOMAIN store) + n <= MaxRevisions

\* Site.write(query) on the Site registered under name.
Write(name, q, outcome) ==
    /\ UNCHANGED inflight
    /\ name \in DOMAIN sites
    /\ HasRoom(Len(q))
    /\ LET w == SiteWrite(sites[name], store[name].things, AsItems(q), outcome)
       IN  /\ store' = [store EXCEPT ![name].things = w.things]
           /\ call'  = w.call
    /\ UNCHANGED <<sites, event_listeners>>

\* Site.save(key, data) on the Site registered under name.
Save(name, key, data, outcome) ==
    /\ UNCHANGED inflight
    /\ name \in DOMAIN sites
    /\ HasRoom(1)
    /\ LET w == SiteSave(sites[name], store[name].things, key, data, outcome)
       IN  /\ store' = [store EXCEPT ![name].things = w.things]
           /\ call'  = w.call
    /\ UNCHANGED <<sites, event_listeners>>

\* Site.save_many(items) on the Site registered under name.
SaveMany(name, raw, outcome) ==
    /\ UNCHANGED inflight
    /\ name \in DOMAIN sites
    /\ HasRoom(Len(raw))
    /\ LET w == SiteSaveMany(sites[name], store[name].things, raw, outcome)
       IN  /\ store' = [store EXCEPT ![name].things = w.things]
           /\ call'  = w.call
    /\ UNCHANGED <<sites, event_listeners>>

\* A processor or storage error leaves the method before anything that
\* depends on the request is done: one request stands for all.
Errors == Outcomes \ {"ok"}

ProbeRequest == <<[key |-> "k1", data |-> "T1"]>>

Next ==
    \/ \E name \in Names : Create(name)
    \/ \E name \in Names : Get(name)
    \/ \E name \in Names : Delete(name)
    \/ \E l \in Listeners : AddEventListener(l)
    \/ \E l \in Listeners : RemoveEventListener(l)
    \/ \E name \in Names, type \in Types, func \in Handlers :
          AddTrigger(name, type, func)
    \/ \E name \in Names, q \in ItemSeqs(Types) : Write(name, q, "ok")
    \/ \E name \in Names, error \in Errors : Write(name, ProbeRequest, error)
    \/ \E name \in Names, key \in Keys, data \in Types \cup {NoChange} :
          Save(name, key, data, "ok")
    \/ \E name \in Names, key \in Keys, error \in Errors :
          Save(name, key, "T1", error)
    \/ \E name \in Names, raw \in ItemSeqs(Types \cup {NoChange}) :
          SaveMany(name, raw, "ok")
    \/ \E name \in Names, error \in Errors :
          SaveMany(name, ProbeRequest, error)

Spec == Init /\ [][Next]_vars


\* ---------------------------------------------------------------- claims
\* The triggers of the Site the most recent call was made on.
CallTriggers ==
    IF call.name \in DOMAIN sites THEN sites[call.name]._triggers ELSE EmptyMap

\* The things of the tenant the most recent call was made on.
CallThings == store[call.name].things

Returned == call.raised = "none" /\ call.ret # NoRet

NumRaising(listeners) ==
    Cardinality({i \in 1..Len(listeners) : listeners[i] \in RaisingListeners})

\* C1: every fire_event dispatch invokes every registered listener exactly
\* once, in registration order, also after a listener that raised; each
\* exception is recorded and none leaves fire_event or the write that
\* emitted the event.
C1_FireEventIsolatesListeners ==
    /\ call.raised # "ListenerError"
    /\ \A i \in 1..Len(call.events) :
          LET d == call.events[i]
          IN  /\ d.calls = event_listeners
              /\ d.recorded = NumRaising(event_listeners)
              /\ d.raised = "none"
    /\ (call.op = "write" /\ call.saved) => Returned

\* C1 witness: a write dispatched two events to a raising listener that is
\* registered before a second listener.
C1_Witness ==
    /\ call.op = "write"
    /\ Len(call.events) = 2
    /\ event_listeners = <<"L1", "L2">>
    /\ call.events[1].calls = <<"L1", "L2">>
    /\ Returned

\* C2: every firing invokes every handler registered for its type once, in
\* registration order, also after a handler that raised; a type without
\* handlers fires nothing; every created or updated key gets its firing and
\* the write returns its normal result.
C2_TriggersIsolated ==
    /\ call.raised # "TriggerError"
    /\ \A i \in 1..Len(call.fired) :
          LET f == call.fired[i]
          IN  /\ f.raised = "none"
              /\ IF f.type \in DOMAIN CallTriggers
                 THEN f.calls = CallTriggers[f.type]
                 ELSE f.calls = <<>>
              /\ f.reported =
                   Cardinality({j \in 1..Len(f.calls) :
                                   f.calls[j] \in RaisingHandlers})
    /\ call.saved =>
          /\ Returned
          /\ \A i \in 1..Len(call.result) :
                \E j \in 1..Len(call.fired) :
                    call.fired[j].new.key = call.result[i].key

\* C2 witness: a write of two keys fired, for each, a raising handler and
\* the handler registered after it, and returned.
C2_Witness ==
    /\ call.op = "write"
    /\ Len(call.fired) = 2
    /\ call.fired[1].calls = <<"h1", "h2">>
    /\ call.fired[2].calls = <<"h1", "h2">>
    /\ call.fired[1].new.key # call.fired[2].new.key
    /\ call.ret.tag = "dict"

\* C3: a successful write dispatches as many "save" events as the storage
\* call persisted items, one per persisted item and in their order.
C3_WriteEventPerItem ==
    (call.op = "write" /\ call.saved) =>
        /\ Len(call.events) = Len(call.result)
        /\ \A i \in 1..Len(call.result) :
              /\ call.events[i].event.name = "save"
              /\ call.events[i].event.data.key = call.result[i].key
              /\ call.events[i].event.data = call.items[i]

\* C3 witness: a write persisted two items and dispatched two events.
C3_Witness ==
    /\ call.op = "write"
    /\ Len(call.result) = 2
    /\ Len(call.events) = 2
    /\ event_listeners # <<>>

\* C4: events and triggers follow a returned storage result only; when the
\* processor or the storage call raises, that error leaves the method and
\* no event is emitted and no trigger fired.
C4_NothingFiredOnError ==
    /\ call.fault \in Errors =>
          /\ call.raised = call.fault
          /\ call.events = <<>>
          /\ call.fired = <<>>
          /\ ~call.saved
    /\ (call.events # <<>> \/ call.fired # <<>>) => call.saved

\* C4 witness: a write whose storage call raised on a tenant with a
\* listener and a trigger registered.
C4_Witness ==
    /\ call.op = "write"
    /\ call.raised = "StoreError"
    /\ event_listeners # <<>>
    /\ CallTriggers # EmptyMap


InSeq(x, q) == \E i \in 1..Len(q) : q[i] = x

Count(x, q) == Cardinality({i \in 1..Len(q) : q[i] = x})

\* The storage call of the step returned a result.
StepSaved == call'.op \in {"write", "save", "save_many"} /\ call'.saved

\* C5: each persisted result is classified by its revision: a key that did
\* not exist gets revision 1 and is in created, not in updated; a key that
\* existed gets its previous revision plus one and is in updated, not in
\* created; each persisted key is in exactly one of the two, once.
C5_ClassifiedByRevision ==
    [][StepSaved =>
         /\ \A i \in 1..Len(call'.result) :
               LET r    == call'.result[i]
                   prev == Len(store[call'.name].things[r.key])
               IN  /\ r.revision = prev + 1
                   /\ Count(r.key, call'.created) + Count(r.key, call'.updated) = 1
                   /\ (r.revision = 1) <=> InSeq(r.key, call'.created)
                   /\ (r.revision # 1) <=> InSeq(r.key, call'.updated)
         /\ call'.op = "write" =>
               /\ call'.ret.created = call'.created
               /\ call'.ret.updated = call'.updated]_vars

\* C5 witness: one write created a key at revision 1 and re-saved another
\* at revision 2.
C5_Witness ==
    /\ call.op = "write"
    /\ Returned
    /\ call.result = <<[key |-> "k1", revision |-> 2],
                       [key |-> "k2", revision |-> 1]>>
    /\ call.ret.created = <<"k2">>
    /\ call.ret.updated = <<"k1">>

\* The firings of the most recent call for key.
FiringsFor(key) ==
    SelectSeq(call.fired, LAMBDA f : f.new.key = key)

\* The object of key at revision n, read off the stored history.
Stored(key, n) ==
    [key |-> key, type |-> CallThings[key][n], revision |-> n]

Current(key) == Stored(key, Len(CallThings[key]))

Prior(key) == Stored(key, Len(CallThings[key]) - 1)

HandlersOf(type) ==
    IF type \in DOMAIN CallTriggers THEN CallTriggers[type] ELSE <<>>

\* C6: an updated key whose type is the same at the prior and the current
\* revision gets exactly one firing, for that type, with old the object at
\* the prior revision and new the current object, which invokes each
\* handler of the type once.
C6_SameTypeFiresOnce ==
    (call.saved /\ Returned) =>
        \A i \in 1..Len(call.updated) :
            LET key == call.updated[i]
                fs  == FiringsFor(key)
            IN  Prior(key).type = Current(key).type =>
                    /\ Len(fs) = 1
                    /\ fs[1].type = Current(key).type
                    /\ fs[1].old = Prior(key)
                    /\ fs[1].new = Current(key)
                    /\ fs[1].calls = HandlersOf(Current(key).type)

\* C6 witness: k1, created at revision 1, was updated with its type kept and
\* the handler registered for the type ran once with old at revision 1 and
\* new at revision 2.
C6_Witness ==
    /\ call.op = "write"
    /\ call.updated = <<"k1">>
    /\ Len(call.fired) = 1
    /\ call.fired[1].calls = <<"h2">>
    /\ call.fired[1].old.revision = 1
    /\ call.fired[1].new.revision = 2
    /\ call.fired[1].old.type = call.fired[1].new.type

\* C7: an updated key whose type differs between the prior and the current
\* revision gets exactly two firings, first for the prior type and then for
\* the current type, both with old the prior and new the current object,
\* each invoking the handlers of its type once.
C7_TypeChangeFiresBoth ==
    (call.saved /\ Returned) =>
        \A i \in 1..Len(call.updated) :
            LET key == call.updated[i]
                fs  == FiringsFor(key)
            IN  Prior(key).type # Current(key).type =>
                    /\ Len(fs) = 2
                    /\ fs[1].type = Prior(key).type
                    /\ fs[2].type = Current(key).type
                    /\ \A j \in 1..2 :
                          /\ fs[j].old = Prior(key)
                          /\ fs[j].new = Current(key)
                          /\ fs[j].calls = HandlersOf(fs[j].type)

\* C7 witness: the type of k1 changed from T1 to T2 and a handler of T1 ran
\* before a handler of T2, on the same pair.
C7_Witness ==
    /\ call.updated = <<"k1">>
    /\ Len(call.fired) = 2
    /\ call.fired[1].type = "T1" /\ call.fired[1].calls # <<>>
    /\ call.fired[2].type = "T2" /\ call.fired[2].calls # <<>>
    /\ call.fired[1].old = call.fired[2].old
    /\ call.fired[1].new = call.fired[2].new

\* The step is a save whose processor normalizes the data to a falsy value.
FalsySaveStep == \E name \in Names, key \in Keys : Save(name, key, NoChange, "ok")

\* C8: a save whose processor result is falsy is a no-op: the storage save
\* is not called and no revision added, no event is emitted, no trigger
\* fired, and an empty result is returned.
C8_FalsySaveIsNoOp ==
    [][FalsySaveStep =>
         /\ store' = store
         /\ ~call'.saved
         /\ call'.result = <<>>
         /\ call'.events = <<>>
         /\ call'.fired = <<>>
         /\ call'.raised = "none"
         /\ call'.ret = [tag |-> "empty"]]_vars

\* C8 witness: a save returned the empty result on a tenant with a listener
\* and a trigger registered.
C8_Witness ==
    /\ call.op = "save"
    /\ call.ret = [tag |-> "empty"]
    /\ event_listeners # <<>>
    /\ CallTriggers # EmptyMap

\* C9: a successful save_many emits exactly one "save" event for each item
\* handed to the storage call, in their order.
C9_SaveManyEventPerItem ==
    (call.op = "save_many" /\ call.saved) =>
        /\ Len(call.events) = Len(call.items)
        /\ \A i \in 1..Len(call.items) :
              call.events[i].event.data = call.items[i]

\* The step is an Infobase.get.
GetStep == call'.op = "get"

\* C10: get returns the Site of the mapping when there is one and makes no
\* new one; otherwise, when the provider has no such tenant, it returns None
\* without raising and adds no entry; otherwise it makes a Site, puts it in
\* the mapping and returns it.  It never runs bootstrap.
C10_Get ==
    [][GetStep =>
         LET n == call'.name
         IN  /\ store' = store
             /\ ~call'.bootstrapped
             /\ call'.raised = "none"
             /\ IF n \in DOMAIN sites
                THEN /\ sites' = sites
                     /\ ~call'.constructed
                     /\ call'.ret = [tag |-> "Site", site |-> sites[n]]
                ELSE IF n \notin DOMAIN store
                THEN /\ sites' = sites
                     /\ ~call'.constructed
                     /\ call'.ret = [tag |-> "None"]
                ELSE /\ call'.constructed
                     /\ DOMAIN sites' = DOMAIN sites \cup {n}
                     /\ \A m \in DOMAIN sites : sites'[m] = sites[m]
                     /\ call'.ret = [tag |-> "Site", site |-> sites'[n]]]_vars

\* C10 witness: get returned the Site of the mapping, with the trigger
\* registered on it, and constructed none.
C10_Witness ==
    /\ call.op = "get"
    /\ ~call.constructed
    /\ call.ret.tag = "Site"
    /\ call.ret.site._triggers # EmptyMap
    /\ call.ret.site = sites[call.name]


\* The step is an Infobase.delete.
DeleteStep == call'.op = "delete"

\* C11: every Site of the mapping wraps a tenant the provider has, one Site
\* per name; delete(name) leaves no entry for name, present before or not,
\* raises nothing and returns the provider's outcome; a get(name) that
\* follows finds no Site in the mapping and answers from the provider: None
\* when the provider has no such tenant.
C11_DeleteEvicts ==
    [][/\ DOMAIN sites' \subseteq DOMAIN store'
       /\ DeleteStep =>
             LET n == call'.name
             IN  /\ DOMAIN sites' = DOMAIN sites \ {n}
                 /\ \A m \in DOMAIN sites' : sites'[m] = sites[m]
                 /\ call'.raised = "none"
                 /\ call'.ret = [tag |-> "bool", value |-> n \in DOMAIN store]
                 /\ n \notin DOMAIN store'
       /\ (GetStep /\ call.op = "delete" /\ call.name = call'.name) =>
             /\ call'.ret.tag = "Site" => call'.constructed
             /\ call'.name \notin DOMAIN store => call'.ret = [tag |-> "None"]
      ]_vars

\* C11 witness: a delete that the provider confirmed left neither an entry
\* in the mapping nor a tenant in the provider.
C11_Witness ==
    /\ call.op = "delete"
    /\ call.ret = [tag |-> "bool", value |-> TRUE]
    /\ call.name \notin DOMAIN sites
    /\ call.name \notin DOMAIN store

\* The step is an Infobase.create.
CreateStep == call'.op = "create"

\* C12: create(name) raises AlreadyExistsError when the provider has the
\* tenant, and then leaves the mapping (an existing Site included) and the
\* storage as they are and runs no bootstrap; otherwise it creates the
\* storage, runs bootstrap once, registers the new Site and returns it.
C12_Create ==
    [][CreateStep =>
         LET n == call'.name
         IN  IF n \in DOMAIN store
             THEN /\ call'.raised = "AlreadyExistsError"
                  /\ call'.ret = NoRet
                  /\ sites' = sites
                  /\ store' = store
                  /\ ~call'.bootstrapped
                  /\ ~call'.constructed
             ELSE /\ call'.raised = "none"
                  /\ call'.bootstrapped
                  /\ call'.constructed
                  /\ DOMAIN store' = DOMAIN store \cup {n}
                  /\ DOMAIN sites' = DOMAIN sites \cup {n}
                  /\ store'[n].accounts = BootstrapAccounts
                  /\ \A k \in Keys :
                        Len(store'[n].things[k]) =
                          Cardinality({i \in 1..Len(BootstrapQuery) :
                                          BootstrapQuery[i].key = k})
                  /\ sites'[n] = [sitename |-> n, _triggers |-> EmptyMap]
                  /\ call'.ret = [tag |-> "Site", site |-> sites'[n]]
      ]_vars

\* C12 witness: create raised AlreadyExistsError for a tenant whose Site,
\* with its trigger, is still the one of the mapping.
C12_Witness ==
    /\ call.op = "create"
    /\ call.raised = "AlreadyExistsError"
    /\ call.name \in DOMAIN sites
    /\ sites[call.name]._triggers # EmptyMap

\* The step is an Infobase.remove_event_listener.
RemoveStep == call'.op = "remove_event_listener"

Without(list, x) == SelectSeq(list, LAMBDA y : y # x)

\* C13 as stated: removing a listener that is not registered raises nothing
\* and leaves the sequence unchanged; removing a registered one leaves a
\* sequence that no longer holds it (no later fire_event invokes it), the
\* others in their order.
C13_RemoveAsStated ==
    [][RemoveStep =>
         LET l == call'.name
         IN  /\ call'.raised = "none"
             /\ Count(l, event_listeners) = 0 =>
                    event_listeners' = event_listeners
             /\ Count(l, event_listeners) > 0 =>
                    event_listeners' = Without(event_listeners, l)
      ]_vars

\* C13 amended: removing a listener that is not registered raises nothing
\* and leaves the sequence unchanged; removing a registered one removes its
\* first registration only, the rest of the sequence keeping its order, so
\* later fire_event calls invoke it once less, and not at all only when it
\* was registered once.
C13_RemoveFirstRegistration ==
    [][RemoveStep =>
         LET l == call'.name
         IN  /\ call'.raised = "none"
             /\ Count(l, event_listeners) = 0 =>
                    event_listeners' = event_listeners
             /\ Count(l, event_listeners) > 0 =>
                    \E i \in 1..Len(event_listeners) :
                       /\ event_listeners[i] = l
                       /\ \A j \in 1..(i - 1) : event_listeners[j] # l
                       /\ event_listeners' =
                            SubSeq(event_listeners, 1, i - 1)
                            \o SubSeq(event_listeners, i + 1,
                                      Len(event_listeners))
      ]_vars

\* C13 witness: a listener registered twice was removed once and is still
\* registered once.
C13_Witness ==
    /\ call.op = "remove_event_listener"
    /\ call.name = "L1"
    /\ event_listeners = <<"L1">>


\* C15: a created key gets exactly one firing, for the type of its current
\* object, with old absent and new the current object, invoking each handler
\* of that type once, none when none is registered; a write returns the key
\* in created.
C15_CreatedFiresWithoutOld ==
    (call.saved /\ Returned) =>
        \A i \in 1..Len(call.created) :
            LET key == call.created[i]
                fs  == FiringsFor(key)
            IN  /\ Len(fs) = 1
                /\ fs[1].type = Current(key).type
                /\ fs[1].old = NoThing
                /\ fs[1].new = Current(key)
                /\ fs[1].calls = HandlersOf(Current(key).type)
                /\ call.op = "write" => InSeq(key, call.ret.created)

\* C15 witness: a write created k2 and the two handlers of its type ran once
\* each, with old absent.
C15_Witness ==
    /\ call.op = "write"
    /\ call.ret.tag = "dict"
    /\ call.ret.created = <<"k2">>
    /\ Len(call.fired) = 1
    /\ call.fired[1].old = NoThing
    /\ call.fired[1].new.key = "k2"
    /\ call.fired[1].new.revision = 1
    /\ Len(call.fired[1].calls) = 2

\* The place of key in the storage result sequence of the most recent call.
ResultPos(key) == CHOOSE i \in 1..Len(call.result) : call.result[i].key = key

IsCreatedFiring(f) == f.old = NoThing

\* C16: in one call every event is dispatched before any trigger fires, the
\* firings of the created keys precede those of the updated keys, and each
\* group follows the order of the storage result sequence.
C16_EventsThenCreatedThenUpdated ==
    (call.saved /\ Returned) =>
        /\ Len(call.log) = Len(call.events) + Len(call.fired)
        /\ \A i, j \in 1..Len(call.log) :
              (i < j /\ call.log[i].kind = "trigger") =>
                  call.log[j].kind = "trigger"
        /\ \A i, j \in 1..Len(call.fired) :
              i < j =>
                  LET f == call.fired[i]
                      g == call.fired[j]
                  IN  /\ IsCreatedFiring(g) => IsCreatedFiring(f)
                      /\ IsCreatedFiring(f) = IsCreatedFiring(g) =>
                            ResultPos(f.new.key) <= ResultPos(g.new.key)

\* C16 witness: a write whose request names the updated key k1 before the
\* created key k2 dispatched its two events, then fired for k2, then for k1.
C16_Witness ==
    /\ call.op = "write"
    /\ Len(call.items) = 2
    /\ call.items[1].key = "k1"
    /\ event_listeners # <<>>
    /\ Len(call.events) = 2
    /\ Len(call.fired) = 2
    /\ call.fired[1].new.key = "k2" /\ call.fired[1].old = NoThing
    /\ call.fired[2].new.key = "k1" /\ call.fired[2].old # NoThing
    /\ call.log[3].kind = "trigger"


\* ------------------------------------------- ip and author of a write call
\* Spec leaves the ip and the author of a request out: nothing else in a
\* write depends on them.  SpecAmbient draws them, and the request context
\* they default to, with every write request.
NoIp     == "None"       \* ip=None, or no ip in web.ctx
NoUser   == "None"       \* author=None, or get_user() returning None
Loopback == "127.0.0.1"

\* web.ctx.get('ip', '127.0.0.1')
CtxIp(ctx_ip) == IF ctx_ip = NoIp THEN Loopback ELSE ctx_ip

\* Site.write: ip goes to store.save_many and to _fire_event as given.
WriteIp(ip, ctx_ip) == ip

\* Site.save, Site.save_many: ip = ip or web.ctx.get('ip', '127.0.0.1')
SaveIp(ip, ctx_ip) == IF ip # NoIp THEN ip ELSE CtxIp(ctx_ip)

\* author = author or self.get_account_manager().get_user(), handed on as
\* author and author.key
Username(author, user) == IF author # NoUser THEN author ELSE user

\* What a caller supplies (ip, author) and what the request context holds
\* (ctx_ip, and user: the account get_user() returns).
Requests ==
    [ip : {NoIp, "10.0.0.1"}, author : {NoUser, "alice"},
     ctx_ip : {NoIp, "10.0.0.2"}, user : {NoUser, "bob"}]

\* The call record with the request and with the ip and the username the
\* method hands to the storage call and to every _fire_event of the call.
Stamp(c, req, ip, username) ==
    [f \in DOMAIN c \cup {"req", "ip", "username"} |->
        IF f = "req" THEN req
        ELSE IF f = "ip" THEN ip
        ELSE IF f = "username" THEN username
        ELSE c[f]]

\* Site.write(query, ip=req.ip, author=req.author)
WriteFrom(name, q, req) ==
    /\ UNCHANGED inflight
    /\ name \in DOMAIN sites
    /\ HasRoom(Len(q))
    /\ LET w == SiteWrite(sites[name], store[name].things, AsItems(q), "ok")
       IN  /\ store' = [store EXCEPT ![name].things = w.things]
           /\ call'  = Stamp(w.call, req, WriteIp(req.ip, req.ctx_ip),
                             Username(req.author, req.user))
    /\ UNCHANGED <<sites, event_listeners>>

\* Site.save(key, data, ip=req.ip, author=req.author)
SaveFrom(name, key, data, req) ==
    /\ UNCHANGED inflight
    /\ name \in DOMAIN sites
    /\ HasRoom(1)
    /\ LET w == SiteSave(sites[name], store[name].things, key, data, "ok")
       IN  /\ store' = [store EXCEPT ![name].things = w.things]
           /\ call'  = Stamp(w.call, req, SaveIp(req.ip, req.ctx_ip),
                             Username(req.author, req.user))
    /\ UNCHANGED <<sites, event_listeners>>

\* Site.save_many(items, ip=req.ip, author=req.author)
SaveManyFrom(name, raw, req) ==
    /\ UNCHANGED inflight
    /\ name \in DOMAIN sites
    /\ HasRoom(Len(raw))
    /\ LET w == SiteSaveMany(sites[name], store[name].things, raw, "ok")
       IN  /\ store' = [store EXCEPT ![name].things = w.things]
           /\ call'  = Stamp(w.call, req, SaveIp(req.ip, req.ctx_ip),
                             Username(req.author, req.user))
    /\ UNCHANGED <<sites, event_listeners>>

NextAmbient ==
    \/ \E name \in Names : Create(name)
    \/ \E name \in Names : Get(name)
    \/ \E name \in Names, q \in ItemSeqs(Types), req \in Requests :
          WriteFrom(name, q, req)
    \/ \E name \in Names, key \in Keys, data \in Types \cup {NoChange},
          req \in Requests : SaveFrom(name, key, data, req)
    \/ \E name \in Names, raw \in ItemSeqs(Types \cup {NoChange}),
          req \in Requests : SaveManyFrom(name, raw, req)

SpecAmbient == Init /\ [][NextAmbient]_vars

\* C14: on write, save and save_many alike, a call without ip hands the
\* request's ip, or 127.0.0.1 when the request has none, to storage and to
\* its events, never an absent ip; a call without author hands on the
\* account get_user() returns.
C14_IpAndAuthorDefaulted ==
    (call.op \in {"write", "save", "save_many"}) =>
        /\ call.req.ip = NoIp =>
              /\ call.ip # NoIp
              /\ call.ip = IF call.req.ctx_ip # NoIp THEN call.req.ctx_ip
                           ELSE "127.0.0.1"
        /\ call.req.author = NoUser => call.username = call.req.user


\* ------------------------------------------------------------ two tenants
\* Two tenants of one Infobase, both created by an earlier process: their
\* Sites share the registry's listener list and nothing else.
Tenants == {"a", "b"}

InitTenants ==
    /\ event_listeners = <<>>
    /\ sites = EmptyMap
    /\ store = [n \in Tenants |-> BootstrappedStorage]
    /\ call = NewCall("__init__", "")
    /\ inflight = EmptyMap

NextTenants ==
    \/ \E name \in Tenants : Get(name)
    \/ \E l \in Listeners : AddEventListener(l)
    \/ \E name \in Tenants, type \in Types, func \in Handlers :
          AddTrigger(name, type, func)
    \/ \E name \in Tenants, q \in ItemSeqs(Types) : Write(name, q, "ok")
    \/ \E name \in Tenants, key \in Keys, data \in Types :
          Save(name, key, data, "ok")

SpecTenants == InitTenants /\ [][NextTenants]_vars

\* C17: a Site starts with an empty trigger registry and only its own
\* add_trigger changes it; a write on a Site invokes, at each firing, the
\* handlers of that Site's registry for the fired type and no handler that
\* is registered on another Site only; every Event of the write carries the
\* Site's tenant name and goes to the one registry-wide listener list.
C17_TenantIsolation ==
    [][ /\ \A n \in DOMAIN sites' \ DOMAIN sites :
              sites'[n]._triggers = EmptyMap
        /\ \A n \in DOMAIN sites \cap DOMAIN sites' :
              sites'[n]._triggers # sites[n]._triggers =>
                  call'.op = "add_trigger" /\ call'.name = n
        /\ \A i \in 1..Len(call'.fired) :
              LET f == call'.fired[i]
              IN  /\ f.calls = TriggersFor(sites'[call'.name]._triggers, f.type)
                  /\ \A m \in DOMAIN sites' \ {call'.name}, h \in Handlers :
                        (/\ InSeq(h, TriggersFor(sites'[m]._triggers, f.type))
                         /\ ~InSeq(h, TriggersFor(sites'[call'.name]._triggers,
                                                  f.type)))
                            => ~InSeq(h, f.calls)
        /\ \A i \in 1..Len(call'.events) :
              /\ call'.events[i].event.sitename = call'.name
              /\ call'.events[i].calls = event_listeners'
      ]_vars

\* A write on tenant a fires a's handler of the type and not the handler
\* tenant b registered for the same type, and emits an Event named for a.
C17_Witness ==
    /\ call.op = "write" /\ call.name = "a" /\ Returned
    /\ "b" \in DOMAIN sites
    /\ TriggersFor(sites["a"]._triggers, "T1") = <<"h2">>
    /\ TriggersFor(sites["b"]._triggers, "T1") = <<"h1">>
    /\ \E i \in 1..Len(call.fired) :
          call.fired[i].type = "T1" /\ call.fired[i].calls = <<"h2">>
    /\ Len(call.events) > 0
    /\ call.events[1].event.sitename = "a"


\* ------------------------------------------------ writes that interleave
\* Site.write takes no lock: between the return of store.save_many and the
\* trigger loop of one request, another request's write may persist.  A
\* write runs here in two steps, and the requests' steps interleave.
RequestIds == {"r1", "r2"}

InitInterleaved ==
    /\ event_listeners = <<>>
    /\ sites = EmptyMap
    /\ store = [n \in Names |-> BootstrappedStorage]
    /\ call = NewCall("__init__", "")
    /\ inflight = EmptyMap

\* Site.write of request r up to the return of store.save_many.
WriteSaved(r, name, q) ==
    /\ r \notin DOMAIN inflight
    /\ name \in DOMAIN sites
    /\ HasRoom(Len(q))
    /\ LET items  == AsItems(q)
           stored == StoreSaveMany(store[name].things, items)
       IN  /\ store' = [store EXCEPT ![name].things = stored.things]
           /\ inflight' =
                Put(inflight, r,
                    [op |-> "write", pc |-> "saved",
                     call |-> [NewCall("write", name) EXCEPT
                                 !.saved = TRUE, !.items = items,
                                 !.result = stored.result]])
    /\ UNCHANGED <<sites, event_listeners, call>>

\* The rest of Site.write of request r: the event loop, created and updated
\* read off the result, and _fire_triggers, whose self.get(key) reads the
\* storage as it is at this step.
WriteFinished(r) ==
    /\ r \in DOMAIN inflight
    /\ inflight[r].op = "write"
    /\ inflight[r].pc = "saved"
    /\ LET c       == inflight[r].call
           site    == sites[c.name]
           ev      == FireEvents(site.sitename, event_listeners, c.items)
           created == Created(c.result)
           updated == Updated(c.result)
           tr      == FireTriggers(site._triggers, store[c.name].things,
                                   created, updated)
       IN  inflight' =
             [inflight EXCEPT ![r] =
                [op |-> "write", pc |-> "done",
                 call |-> Completed(c, ev, created, updated, tr,
                             [tag |-> "dict", created |-> created,
                              updated |-> updated])]]
    /\ UNCHANGED <<store, sites, event_listeners, call>>

NextInterleaved ==
    \/ \E name \in Names : Get(name)
    \/ \E r \in RequestIds, name \in Names, q \in ItemSeqs(Types) :
          WriteSaved(r, name, q)
    \/ \E r \in RequestIds : WriteFinished(r)

SpecInterleaved == InitInterleaved /\ [][NextInterleaved]_vars

\* C18: a finished write that produced revision n > 1 of a key has fired
\* that key's triggers, each firing with new at revision n and old at
\* revision n - 1, whatever other writes ran in between.
C18_FiresOwnTransition ==
    \A r \in DOMAIN inflight :
        (inflight[r].op = "write" /\ inflight[r].pc = "done") =>
            LET c == inflight[r].call
            IN  \A i \in 1..Len(c.result) :
                    LET res == c.result[i]
                        fs  == SelectSeq(c.fired,
                                         LAMBDA f : f.new.key = res.key)
                    IN  res.revision > 1 =>
                            /\ Len(fs) > 0
                            /\ \A j \in 1..Len(fs) :
                                  /\ fs[j].new.revision = res.revision
                                  /\ fs[j].old # NoThing
                                  /\ fs[j].old.revision = res.revision - 1


\* ------------------------------------ fire_event while the list changes
\* Infobase.fire_event iterates self.event_listeners itself, not a copy: a
\* list iterator holds an index into the list and ends when the index
\* reaches the list's length at that moment.  A dispatch runs here one
\* listener per step, and add_event_listener / remove_event_listener, called
\* by a listener from its callback or by another request, run between steps.
InitDispatch ==
    /\ event_listeners = <<>>
    /\ sites = EmptyMap
    /\ store = [n \in Names |-> BootstrappedStorage]
    /\ call = NewCall("__init__", "")
    /\ inflight = EmptyMap

\* One dispatch is followed; the requests that change the list are not.
DispatchIds == {"d1"}

Dispatching(f) == f.op = "fire_event" /\ f.pc = "loop"

\* The frames with listener l noted, in every running dispatch, as added
\* (field "added") or removed (field "removed") since the dispatch began.
Noted(frames, field, l) ==
    [r \in DOMAIN frames |->
        IF ~Dispatching(frames[r]) THEN frames[r]
        ELSE IF field = "added"
             THEN [frames[r] EXCEPT !.added = @ \cup {l}]
             ELSE [frames[r] EXCEPT !.removed = @ \cup {l}]]

\* fire_event(event) of request r reaches its for statement.
FireEventBegin(r) ==
    /\ r \notin DOMAIN inflight
    /\ inflight' = Put(inflight, r,
                       [op |-> "fire_event", pc |-> "loop",
                        start |-> event_listeners, idx |-> 0,
                        calls |-> <<>>, added |-> {}, removed |-> {}])
    /\ UNCHANGED <<store, sites, event_listeners, call>>

\* One turn of `for listener in self.event_listeners`: the iterator yields
\* the item at its index and advances, or ends the loop; the listener runs
\* inside try/except, so the loop goes on whatever it does.
FireEventNext(r) ==
    /\ r \in DOMAIN inflight
    /\ Dispatching(inflight[r])
    /\ LET f == inflight[r]
       IN  inflight' =
             [inflight EXCEPT ![r] =
                IF f.idx < Len(event_listeners)
                THEN [f EXCEPT !.idx = @ + 1,
                               !.calls = Append(@, event_listeners[f.idx + 1])]
                ELSE [f EXCEPT !.pc = "done"]]
    /\ UNCHANGED <<store, sites, event_listeners, call>>

\* Infobase.add_event_listener(listener), possibly during a dispatch.
ListenerAdded(listener) ==
    /\ Observers < MaxObservers
    /\ event_listeners' = Append(event_listeners, listener)
    /\ inflight' = Noted(inflight, "added", listener)
    /\ call' = NewCall("add_event_listener", listener)
    /\ UNCHANGED <<store, sites>>

\* Infobase.remove_event_listener(listener), possibly during a dispatch.
ListenerRemoved(listener) ==
    /\ event_listeners' = ListRemove(event_listeners, listener)
    /\ inflight' = IF InSeq(listener, event_listeners)
                   THEN Noted(inflight, "removed", listener)
                   ELSE inflight
    /\ call' = NewCall("remove_event_listener", listener)
    /\ UNCHANGED <<store, sites>>

NextDispatch ==
    \/ \E r \in DispatchIds : FireEventBegin(r)
    \/ \E r \in DispatchIds : FireEventNext(r)
    \/ \E l \in Listeners : ListenerAdded(l)
    \/ \E l \in Listeners : ListenerRemoved(l)

SpecDispatch == InitDispatch /\ [][NextDispatch]_vars

\* C19: when a dispatch ends, every listener that was registered (once)
\* when it began, and was neither removed nor registered again while it
\* ran, has been invoked exactly once, whatever happened to the list
\* meanwhile.
C19_StartListenersInvokedOnce ==
    \A r \in DOMAIN inflight :
        LET f == inflight[r]
        IN  (f.op = "fire_event" /\ f.pc = "done") =>
                \A l \in Listeners :
                    (/\ Count(l, f.start) = 1
                     /\ l \notin f.removed
                     /\ l \notin f.added)
                        => Count(l, f.calls) = 1

====
